---- MODULE Spec2Model ----
(***************************************************************************)
(* A model of kdl2fcp.py: the Kdenlive reader (KdenliveReader), the data   *)
(* model (Project, Clip, Track, Entry), the FCP XML writer (FcpXmlWriter), *)
(* convert() and the file loop of __main__.                                *)
(*                                                                         *)
(* Strings are sequences of one-character strings, so that prefixing,      *)
(* joining, splitting and suffix tests are computed as the code computes   *)
(* them.  Canonical seconds are kept exactly: a time of a Project with     *)
(* frame rate num/den is an integer count of units of 1/(1000*num) s, the  *)
(* common denominator of a frame (den/num s) and a millisecond.  Python's  *)
(* binary64 rounding error is not modelled.                                *)
(***************************************************************************)
EXTENDS Integers, Sequences, FiniteSets, TLC

VARIABLES
    args,                  \* the parsed command line and the two module flags
    global_embed_counter,  \* kdl2fcp.py:58
    pc,                    \* where the process is: main, read, write, done, crashed
    fileIdx,               \* files of the batch handed to convert() so far
    stack,                 \* the active KdenliveReader.read calls, outermost first
    result,                \* what the last FcpXmlWriter.write did
    constructed,           \* every Project constructed in the run, in order
    crashedAt,             \* the file whose conversion raised (0: none)
    codec                  \* the time codec's state (SpecTime)

vars == <<args, global_embed_counter, pc, fileIdx, stack, result, constructed,
          crashedAt, codec>>

(***************************************************************************)
(* Bounds of the model.                                                    *)
(***************************************************************************)
MaxFiles == 2          \* files of a batch (Spec)
MaxDepth == 2          \* nested reads: a file and the projects it embeds (Spec)
MaxChildren == 2       \* children of a playlist (SpecWriter)
MaxFrame == 40         \* frame indexes (SpecTime)

(***************************************************************************)
(* Strings.                                                                *)
(***************************************************************************)
\* An optional value (a property that may be absent, None): <<>> or <<v>>.
Nothing == <<>>
Some(v) == <<v>>

S_empty == <<>>
S_black_track == <<"b","l","a","c","k","_","t","r","a","c","k">>
S_main_bin == <<"m","a","i","n","_","b","i","n">>
S_black == <<"b","l","a","c","k">>
S_ROOT == <<"R","O","O","T","_">>
S_EMB == <<"E","M","B","_">>
S_kdenlive == <<".","k","d","e","n","l","i","v","e">>
S_wav == <<"w","a","v">>
S_flac == <<"f","l","a","c">>

Digits == <<"0","1","2","3","4","5","6","7","8","9">>

StartsWith(s, p) == Len(s) >= Len(p) /\ SubSeq(s, 1, Len(p)) = p

EndsWith(s, p) == Len(s) >= Len(p) /\ SubSeq(s, Len(s) - Len(p) + 1, Len(s)) = p

\* The index of the first c in s, 0 when there is none (str.find, plus one).
Find(s, c) ==
    IF \E i \in 1..Len(s) : s[i] = c
    THEN CHOOSE i \in 1..Len(s) : s[i] = c /\ \A j \in 1..(i-1) : s[j] # c
    ELSE 0

\* The index of the last c in s, 0 when there is none.
RFind(s, c) ==
    IF \E i \in 1..Len(s) : s[i] = c
    THEN CHOOSE i \in 1..Len(s) : s[i] = c /\ \A j \in (i+1)..Len(s) : s[j] # c
    ELSE 0

\* "%02d" % n, for 0 <= n < 1000.
Format02d(n) ==
    IF n < 100
    THEN <<Digits[(n \div 10) + 1], Digits[(n % 10) + 1]>>
    ELSE <<Digits[(n \div 100) + 1], Digits[((n \div 10) % 10) + 1], Digits[(n % 10) + 1]>>

\* os.path.join(root, name) on a POSIX system.
PathJoin(root, name) ==
    IF StartsWith(name, <<"/">>) THEN name
    ELSE IF root = <<>> \/ EndsWith(root, <<"/">>) THEN root \o name
    ELSE root \o <<"/">> \o name

\* os.path.split(path)[1] and os.path.basename(path): what follows the last "/".
Basename(path) == SubSeq(path, RFind(path, "/") + 1, Len(path))

\* name.split(".")[-1]: what follows the last ".", the whole name when it has none.
LastDotPart(name) == SubSeq(name, RFind(name, ".") + 1, Len(name))

IsDigitOrDot(c) == c = "." \/ \E i \in 1..10 : Digits[i] = c

\* re.match(r"[0-9.]+:", resource_name): a non-empty run of digits and dots, then ":".
HasSpeedPrefix(name) ==
    \E k \in 1..(Len(name) - 1) :
        /\ \A i \in 1..k : IsDigitOrDot(name[i])
        /\ name[k + 1] = ":"

\* resource_name[colon_idx+1:] when the speed prefix is there.
StripSpeedPrefix(name) ==
    IF HasSpeedPrefix(name) THEN SubSeq(name, Find(name, ":") + 1, Len(name)) ELSE name

(***************************************************************************)
(* Time codec.                                                             *)
(***************************************************************************)
FrameRates == {<<25, 1>>, <<30000, 1001>>, <<24000, 1001>>}

\* Python 3's round(n/d) for d > 0: to the nearest integer, a tie to the even one.
Round(n, d) ==
    LET q == n \div d
        r == n % d
    IN  IF 2 * r < d THEN q
        ELSE IF 2 * r > d THEN q + 1
        ELSE IF q % 2 = 0 THEN q ELSE q + 1

\* 1.0 / frame_rate, in units of 1/(1000*num) s.
OneFrame(project) == 1000 * project.frame_rate_den

\* A time attribute of the source is a frame count or an HH:MM:SS.mmm string.
FrameAttr(n) == [kind |-> "frames", n |-> n]
StampAttr(h, m, s, ms) == [kind |-> "stamp", h |-> h, m |-> m, s |-> s, ms |-> ms]

\* float(nr_frames) / frame_rate_num: the frame rate's denominator forgotten.
_parseTimeFramesByNum(attr, project) ==
    IF attr.kind = "frames" THEN Some(attr.n * 1000) ELSE Nothing

\* float(nr_frames) / frame_rate; float() raises on a timestamp string (Nothing).
_parseTimeFrames(attr, project) ==
    IF attr.kind = "frames" THEN Some(attr.n * project.frame_rate_den * 1000) ELSE Nothing

\* hours*3600 + minutes*60 + seconds + millis/1000.0; pattern.match(time_str) is
\* None on a bare frame count, and .group raises (Nothing).
_parseTimeStr(attr, project) ==
    IF attr.kind = "stamp"
    THEN Some(((attr.h * 3600 + attr.m * 60 + attr.s) * 1000 + attr.ms)
              * project.frame_rate_num)
    ELSE Nothing

\* "%d/%ds" % (round(float(seconds) * num), num), as the pair <<ticks, rate>>.
_formatTime(seconds, project) ==
    <<Round(seconds, 1000), project.frame_rate_num>>

(***************************************************************************)
(* Data model (kdl2fcp.py:29-82).                                          *)
(***************************************************************************)
ClipFile(resource_path) == [type |-> "ClipFile", resource_path |-> resource_path]

EmbeddedProject(project) == [type |-> "Project", project |-> project]

Clip(clip_id, name, resource, duration) ==
    [clip_id |-> clip_id, name |-> name, resource |-> resource, duration |-> duration]

\* clip is Nothing for a gap, Some(Clip) for a placement.
Entry(clip, in_time, out_time) == [clip |-> clip, in_time |-> in_time, out_time |-> out_time]

Track(is_audio) == [is_audio |-> is_audio, entries |-> <<>>]

\* Project.id_prefix, from the counter's value at construction.
IdPrefix(counter, embed) ==
    IF counter = 0
    THEN (IF embed THEN S_ROOT ELSE S_empty)
    ELSE S_EMB \o Format02d(counter) \o <<"_">>

\* Project(): frame_rate is None until _parseSettings (0 here).
Project(counter, embed) ==
    [id_prefix |-> IdPrefix(counter, embed), clips |-> <<>>, tracks |-> <<>>,
     frame_rate_num |-> 0, frame_rate_den |-> 0]

\* Project.clips is a dict: a new key is appended, a known key keeps its place.
addClip(project, clip_id, clip) ==
    IF \E i \in 1..Len(project.clips) : project.clips[i].clip_id = clip_id
    THEN [project EXCEPT !.clips =
            [i \in 1..Len(project.clips) |->
                IF project.clips[i].clip_id = clip_id THEN clip ELSE project.clips[i]]]
    ELSE [project EXCEPT !.clips = Append(project.clips, clip)]

getClip(project, clip_id) ==
    project.clips[CHOOSE i \in 1..Len(project.clips) : project.clips[i].clip_id = clip_id]

addTrack(project, track) == [project EXCEPT !.tracks = Append(project.tracks, track)]

\* A dict d with d[k] = v done.
Put(d, k, v) == (k :> v) @@ d

(***************************************************************************)
(* KdenliveReader (kdl2fcp.py:99-268).                                     *)
(***************************************************************************)
\* The property time_parse_type.
time_parse_type(reader) ==
    IF reader.force_time_timestamp THEN "timestamp"
    ELSE IF reader.force_time_frames THEN "frames"
    ELSE "auto"

\* KdenliveReader.__init__: the reader's own fields, and the read's working state
\* (filled by read) beside them.  stage is the read's position.
KdenliveReader(force_time_frames, force_time_timestamp, legacy_format) ==
    LET flags == [force_time_frames |->
                      IF ~force_time_timestamp THEN force_time_frames ELSE FALSE,
                  force_time_timestamp |->
                      IF ~force_time_frames THEN force_time_timestamp ELSE FALSE]
    IN  [force_time_frames |-> flags.force_time_frames,
         force_time_timestamp |-> flags.force_time_timestamp,
         version |-> IF force_time_frames THEN 0 ELSE 1,
         legacy_format |-> legacy_format,
         parseTime |-> IF time_parse_type(flags) = "frames" THEN "frames" ELSE "str",
         stage |-> "open",
         project |-> Nothing,
         resource_root |-> S_empty,
         resource_path_to_canonical_clip |-> <<>>,
         clip_id_to_canonical_clip_id |-> <<>>,
         producers |-> <<>>,
         audio_playlist_ids |-> {},
         playlists |-> {},
         pending |-> Nothing,
         serial |-> 0]

\* read, lines 124-127: in auto mode the file's version marker (0.xx) selects the
\* frame parser.
DetectMode(reader, marker) ==
    IF time_parse_type(reader) = "auto" /\ (marker \/ reader.force_time_frames)
    THEN [reader EXCEPT !.parseTime = "frames", !.version = 0]
    ELSE reader

\* self._parseTime(attr, frame_rate)
_parseTime(reader, attr) ==
    IF reader.parseTime = "frames"
    THEN _parseTimeFrames(attr, reader.project)
    ELSE _parseTimeStr(attr, reader.project)

_parseSettings(project, rate) ==
    [project EXCEPT !.frame_rate_num = rate[1], !.frame_rate_den = rate[2]]

\* A producer element: its id and out attributes and the properties the reader
\* selects (Nothing: the property is absent).
Producer(id, resource, originalurl, clipname, out, video_index) ==
    [id |-> id, resource |-> resource, originalurl |-> originalurl,
     clipname |-> clipname, out |-> out, video_index |-> video_index]

\* Lines 162-167: the original URL when the property is there, else the resource.
ResourceName(producer) ==
    IF producer.originalurl # Nothing THEN producer.originalurl[1] ELSE producer.resource[1]

\* Lines 171-176.
ResourcePath(resource_root, producer) ==
    PathJoin(resource_root, StripSpeedPrefix(ResourceName(producer)))

\* Lines 181-187.
ClipName(producer, resource_path) ==
    IF producer.clipname # Nothing
    THEN (IF producer.clipname[1] # S_empty THEN producer.clipname[1]
          ELSE Basename(resource_path))
    ELSE Basename(resource_path)

\* Lines 196-200, with the path recorded under a key that is never looked up again.
AddCanonicalClipForgetPath(reader, clip, resource_path) ==
    [reader EXCEPT
        !.clip_id_to_canonical_clip_id = Put(@, clip.clip_id, clip.clip_id),
        !.project = addClip(@, clip.clip_id, clip)]

\* Lines 196-200: the clip becomes the canonical one of its path.
AddCanonicalClip(reader, clip, resource_path) ==
    [reader EXCEPT
        !.clip_id_to_canonical_clip_id = Put(@, clip.clip_id, clip.clip_id),
        !.resource_path_to_canonical_clip = Put(@, resource_path, clip.clip_id),
        !.project = addClip(@, clip.clip_id, clip)]

\* Lines 177-179: the producer id becomes an alias of the path's canonical clip.
AliasClip(reader, clip_id, resource_path) ==
    [reader EXCEPT
        !.clip_id_to_canonical_clip_id =
            Put(@, clip_id, reader.resource_path_to_canonical_clip[resource_path])]

\* One iteration of the loop of _parseProducers (lines 156-201) on `producer`:
\*   skip    the black_track producer
\*   raise   a selected property is absent, or the out attribute does not parse
\*   alias   the path is known
\*   embed   the path is new and is read as an embedded project: `clip` waits
\*           for the Project the embedded read returns
\*   clip    the path is new and a ClipFile
ProducerStep(reader, producer, embed) ==
    IF producer.id = S_black_track THEN [kind |-> "skip", reader |-> reader]
    ELSE IF producer.resource = Nothing THEN [kind |-> "raise", reader |-> reader]
    ELSE IF _parseTime(reader, producer.out) = Nothing
         THEN [kind |-> "raise", reader |-> reader]
    ELSE
      LET clip_id == reader.project.id_prefix \o producer.id
          duration == _parseTime(reader, producer.out)[1]
          resource_path == ResourcePath(reader.resource_root, producer)
          clip_name == ClipName(producer, resource_path)
      IN  IF resource_path \in DOMAIN reader.resource_path_to_canonical_clip
          THEN [kind |-> "alias", reader |-> AliasClip(reader, clip_id, resource_path)]
          ELSE IF embed /\ EndsWith(resource_path, S_kdenlive)
          THEN [kind |-> "embed",
                reader |-> [reader EXCEPT !.pending =
                    Some([clip_id |-> clip_id, name |-> clip_name,
                          resource_path |-> resource_path, duration |-> duration])]]
          ELSE [kind |-> "clip",
                reader |-> AddCanonicalClip(reader,
                    Clip(clip_id, clip_name, ClipFile(resource_path), duration),
                    resource_path)]

\* The loop of _parseProducers (lines 156-201) over a file none of whose
\* producers names a .kdenlive resource, from producer i on: the reader after
\* it, Nothing when it raises.
RECURSIVE _parseProducers(_, _, _, _)
_parseProducers(reader, producers, embed, i) ==
    IF i > Len(producers) THEN Some(reader)
    ELSE LET step == ProducerStep(reader, producers[i], embed)
         IN  IF step.kind = "raise" THEN Nothing
             ELSE _parseProducers([step.reader EXCEPT !.producers = Append(@, producers[i])],
                                  producers, embed, i + 1)

\* A playlist element and its children that the reader looks at.
Playlist(id, children) == [id |-> id, children |-> children]
Blank(length) == [name |-> "blank", length |-> length]
EntryNode(producer, in, out) == [name |-> "entry", producer |-> producer, in |-> in, out |-> out]

\* A tractor: whether it carries kdenlive:audio_track, and its tracks' producers.
Tractor(audio_track, tracks) == [audio_track |-> audio_track, tracks |-> tracks]

\* Lines 206-215.
AudioPlaylistIds(tractors) ==
    UNION {{t.tracks[i] : i \in 1..Len(t.tracks)} : t \in {x \in tractors : x.audio_track}}

\* selectFirst(playlist, "entry")
FirstEntry(playlist) ==
    LET idx == {i \in 1..Len(playlist.children) : playlist.children[i].name = "entry"}
    IN  IF idx = {} THEN Nothing
        ELSE Some(playlist.children[CHOOSE i \in idx : \A j \in idx : i <= j])

\* Lines 229-234: every producer of the file with the entry's producer id and a
\* video_index property sets is_audio, the last one standing.
RECURSIVE VideoIndexFallback(_, _, _, _)
VideoIndexFallback(producers, id, i, is_audio) ==
    IF i > Len(producers) THEN is_audio
    ELSE VideoIndexFallback(producers, id, i + 1,
            IF producers[i].id = id /\ producers[i].video_index # Nothing
            THEN producers[i].video_index[1] = -1
            ELSE is_audio)

\* Lines 225-234.
IsAudio(reader, playlist) ==
    LET in_set == playlist.id \in reader.audio_playlist_ids
        entry == FirstEntry(playlist)
    IN  IF (reader.legacy_format \/ reader.version = 0) /\ entry # Nothing
        THEN VideoIndexFallback(reader.producers, entry[1].producer, 1, in_set)
        ELSE in_set

\* Lines 243-246: a blank's length less one frame.
BlankEntry(reader, child) ==
    Entry(Nothing, 0, _parseTime(reader, child.length)[1] - OneFrame(reader.project))

\* Lines 249-257.
ClipEntry(reader, child) ==
    LET producer == reader.project.id_prefix \o child.producer
        clip_id == reader.clip_id_to_canonical_clip_id[producer]
    IN  Entry(Some(getClip(reader.project, clip_id)),
              _parseTime(reader, child.in)[1], _parseTime(reader, child.out)[1])

\* Whether the loop body of lines 240-258 raises on `child`: a time that does
\* not parse, or a producer id that names no canonical clip (KeyError).
ChildRaises(reader, child) ==
    IF child.name = "blank" THEN _parseTime(reader, child.length) = Nothing
    ELSE \/ reader.project.id_prefix \o child.producer
                \notin DOMAIN reader.clip_id_to_canonical_clip_id
         \/ _parseTime(reader, child.in) = Nothing
         \/ _parseTime(reader, child.out) = Nothing

\* Lines 240-258: the track's entries, Nothing when a child raises.
RECURSIVE ParseChildren(_, _, _, _)
ParseChildren(reader, children, i, track) ==
    IF i > Len(children) THEN Some(track)
    ELSE IF ChildRaises(reader, children[i]) THEN Nothing
    ELSE ParseChildren(reader, children, i + 1,
            [track EXCEPT !.entries = Append(@,
                IF children[i].name = "blank" THEN BlankEntry(reader, children[i])
                ELSE ClipEntry(reader, children[i]))])

\* Lines 260-261: a track with no entry is dropped.
KeepTrack(project, track) ==
    IF track.entries # <<>> THEN addTrack(project, track) ELSE project

\* One iteration of the loop of _parseTracks (lines 221-261) on `playlist`.
PlaylistStep(reader, playlist) ==
    IF playlist.id = S_main_bin THEN [kind |-> "skip", reader |-> reader]
    ELSE
      LET track == ParseChildren(reader, playlist.children, 1,
                                 Track(IsAudio(reader, playlist)))
      IN  IF track = Nothing THEN [kind |-> "raise", reader |-> reader]
          ELSE [kind |-> "track",
                reader |-> [reader EXCEPT !.project = KeepTrack(@, track[1])]]

(***************************************************************************)
(* FcpXmlWriter (kdl2fcp.py:273-446).  An element is a record of its tag   *)
(* and the attributes the claims read.  A spine element also carries the   *)
(* position (track, entry) of the entry it was emitted for, which is not   *)
(* an attribute of the output.                                            *)
(***************************************************************************)
\* _addFormats: the format element has attributes and no name.
FormatElement == [tag |-> "format", name |-> Nothing, id |-> Some(<<"r","0">>)]

\* Lines 337-342.
AssetElement(clip) == [tag |-> "asset", name |-> Some(clip.name), id |-> Some(clip.clip_id)]

\* _addResources (lines 333-344) from clip i on: the resource elements, or
\* Nothing when _addEmbeddedTimeline is entered: its first statement reads the
\* name `project`, which is bound in no scope it can see (a local of convert):
\* NameError.
RECURSIVE _addResources(_, _, _)
_addResources(project, i, acc) ==
    IF i > Len(project.clips) THEN Some(acc)
    ELSE IF project.clips[i].resource.type = "ClipFile"
         THEN _addResources(project, i + 1, Append(acc, AssetElement(project.clips[i])))
         ELSE Nothing

\* Lines 420-421 with the lane given to the primary track too.
LaneAlways(index) == Some(index)

\* Lines 420-421: the lane attribute of a node of track `index`.
Lane(index) == IF index > 0 THEN Some(index) ELSE Nothing

\* Lines 395-396 without the frame that closes the inclusive out point.
EntryDurationNoFrame(project, entry) == entry.out_time - entry.in_time

\* Lines 395-396: the duration of an entry, gap or clip.
EntryDuration(project, entry) == entry.out_time - entry.in_time + OneFrame(project)

\* Lines 398-403 with the offset left where it is when no gap node is emitted.
AfterSilentGapStay(offset, duration) == offset

\* Lines 402-403: the offset after a gap that emits no node.
AfterSilentGap(offset, duration) == offset + duration

\* Lines 398-421: the node of entry i of the track, at `offset`.
EntryNodeOf(project, track, index, i, offset) ==
    LET entry == track.entries[i]
        duration == EntryDuration(project, entry)
        head == IF entry.clip = Nothing
                THEN [tag |-> "gap", name |-> Nothing, ref |-> Nothing, srcEnable |-> Nothing]
                ELSE IF entry.clip[1].resource.type = "ClipFile"
                THEN [tag |-> IF track.is_audio THEN "audio" ELSE "video",
                      name |-> Some(entry.clip[1].name),
                      ref |-> Some(entry.clip[1].clip_id), srcEnable |-> Nothing]
                ELSE [tag |-> "ref-clip",
                      name |-> Some(entry.clip[1].name),
                      ref |-> Some(entry.clip[1].clip_id),
                      srcEnable |-> Some(IF track.is_audio THEN "audio" ELSE "video")]
    IN  [tag |-> head.tag, name |-> head.name, ref |-> head.ref,
         srcEnable |-> head.srcEnable,
         start |-> _formatTime(entry.in_time, project),
         duration |-> _formatTime(duration, project),
         offset |-> _formatTime(offset, project),
         lane |-> Lane(index),
         track |-> index, entry |-> i]

\* _addTrack (lines 391-423) from entry i on, the running offset at `offset`.
RECURSIVE _addTrack(_, _, _, _, _, _, _)
_addTrack(project, track, index, add_gap_nodes, i, offset, acc) ==
    IF i > Len(track.entries) THEN acc
    ELSE
      LET entry == track.entries[i]
          duration == EntryDuration(project, entry)
      IN  IF entry.clip = Nothing /\ ~add_gap_nodes
          THEN _addTrack(project, track, index, add_gap_nodes, i + 1,
                         AfterSilentGap(offset, duration), acc)
          ELSE _addTrack(project, track, index, add_gap_nodes, i + 1,
                         offset + duration,
                         Append(acc, EntryNodeOf(project, track, index, i, offset)))

\* _addSequence(project_tag, False) (lines 366-380): the spine's children, the
\* tracks indexed from 0.
RECURSIVE _addSequence(_, _, _, _)
_addSequence(project, add_gap_nodes, t, acc) ==
    IF t > Len(project.tracks) THEN acc
    ELSE _addSequence(project, add_gap_nodes, t + 1,
            _addTrack(project, project.tracks[t], t - 1, add_gap_nodes, 1, 0, acc))

\* _getProjectLength (lines 384-389).
_getProjectLength(project) ==
    LET outs == UNION {{project.tracks[t].entries[i].out_time :
                            i \in 1..Len(project.tracks[t].entries)} :
                       t \in 1..Len(project.tracks)} \cup {0}
    IN  CHOOSE m \in outs : \A o \in outs : o <= m

\* The tree write() hands to write_xml (lines 281-288): the children of
\* resources and of the spine; Nothing when _addResources raises.
EmittedTree(project, add_gap_nodes) ==
    LET res == _addResources(project, 1, <<FormatElement>>)
    IN  IF res = Nothing THEN Nothing
        ELSE Some([resources |-> res[1],
                   spine |-> _addSequence(project, add_gap_nodes, 1, <<>>)])

IsBlack(elm) == elm.name = Some(S_black)

\* Lines 311-317: the spine less its children up to and with the first one
\* named "black" (every child has attributes); all of them when none is.
DropLeadingBlack(spine) ==
    LET blacks == {i \in 1..Len(spine) : IsBlack(spine[i])}
    IN  IF blacks = {} THEN <<>>
        ELSE SubSeq(spine, (CHOOSE i \in blacks : \A j \in blacks : i <= j) + 1,
                    Len(spine))

HasAudioExtension(elm) ==
    elm.name # Nothing /\ LastDotPart(elm.name[1]) \in {S_wav, S_flac}

\* Lines 318-321.
RetagAudio(spine) ==
    [i \in 1..Len(spine) |->
        IF HasAudioExtension(spine[i]) THEN [spine[i] EXCEPT !.tag = "audio"]
        ELSE spine[i]]

\* The filter of write_xml (lines 299-321).
PostFilter(tree) ==
    [resources |-> SelectSeq(tree.resources, LAMBDA e : ~IsBlack(e)),
     spine |-> RetagAudio(DropLeadingBlack(tree.spine))]

\* write_xml (lines 297-323).
write_xml(tree, legacy_format) == IF ~legacy_format THEN PostFilter(tree) ELSE tree

\* convert, lines 452-455, with the option alone deciding.
IsLegacyOptionOnly(legacy_format, version) == legacy_format

\* convert, lines 452-455: the legacy_format the writer is built with.
IsLegacy(legacy_format, version) == IF version = 1 THEN TRUE ELSE legacy_format

\* FcpXmlWriter(project, is_legacy).write(...): what was emitted and what was
\* written, or the exception.
Write(project, legacy_format, add_gap_nodes) ==
    LET tree == EmittedTree(project, add_gap_nodes)
    IN  IF tree = Nothing
        THEN [status |-> "raise", emitted |-> Nothing, output |-> Nothing]
        ELSE [status |-> "ok", emitted |-> tree,
              output |-> Some(write_xml(tree[1], legacy_format))]

(***************************************************************************)
(* The inputs of a run (Spec): what the files of a batch hold.             *)
(***************************************************************************)
Root == <<"/","r">>

Id_1 == <<"1">>
Id_2 == <<"2">>
Id_EMB_01_1 == S_EMB \o <<"0","1","_","1">>
Id_playlist == <<"p","l">>

Res_a == <<"a",".","m","o","v">>
Res_sub == <<"s",".","k","d","e","n","l","i","v","e">>

\* One file under two producer ids, and an embedded project.
RunProducers ==
    {Producer(Id_1, Some(Res_a), Nothing, Nothing, FrameAttr(10), Nothing),
     Producer(Id_EMB_01_1, Some(Res_a), Nothing, Nothing, FrameAttr(10), Nothing),
     Producer(Id_2, Some(Res_sub), Nothing, Nothing, FrameAttr(10), Nothing)}

RunPlaylists ==
    {Playlist(Id_playlist, <<EntryNode(Id_1, FrameAttr(0), FrameAttr(9))>>)}

RunTractors == {{Tractor(TRUE, <<Id_playlist>>)}}

RunRates == {<<30000, 1001>>}

(***************************************************************************)
(* The run: the file loop of __main__ (lines 486-498), convert (449-457)   *)
(* and KdenliveReader.read (120-135), embedded reads nested on `stack`.    *)
(***************************************************************************)
Top == stack[Len(stack)]

SetTop(reader) == [stack EXCEPT ![Len(stack)] = reader]

NoResult == [status |-> "none", emitted |-> Nothing, output |-> Nothing]

NoCodec == [pc |-> "off", rate |-> <<0, 0>>, f |-> 0, seconds |-> Nothing,
            ticks |-> Nothing]

Arguments ==
    [timing_as_framenumber : BOOLEAN, timing_as_timestamp : BOOLEAN,
     legacy_format : BOOLEAN, embedded_mlt_to_compound_clip : BOOLEAN,
     add_gap_nodes : BOOLEAN, files : 1..MaxFiles]

\* The runs of Spec: every time-mode option, with and without embedding.
RunArguments == {a \in Arguments : ~a.add_gap_nodes /\ ~a.legacy_format}

Init ==
    /\ args \in RunArguments
    /\ global_embed_counter = 0
    /\ pc = "main"
    /\ fileIdx = 0
    /\ stack = <<>>
    /\ result = NoResult
    /\ constructed = <<>>
    /\ crashedAt = 0
    /\ codec = NoCodec

\* An exception nobody catches: the loop of __main__ has no try, the process ends.
Raise ==
    /\ pc' = "crashed"
    /\ crashedAt' = fileIdx

\* Lines 486-496 and 450: the next file of the batch goes to convert, which
\* builds its reader from the command line.
ConvertNext ==
    /\ pc = "main"
    /\ fileIdx < args.files
    /\ fileIdx' = fileIdx + 1
    /\ stack' = <<KdenliveReader(args.timing_as_framenumber, args.timing_as_timestamp,
                                 args.legacy_format)>>
    /\ pc' = "read"
    /\ result' = NoResult
    /\ UNCHANGED <<args, global_embed_counter, constructed, crashedAt, codec>>

\* The loop of __main__ is over.
Finish ==
    /\ pc = "main"
    /\ fileIdx = args.files
    /\ pc' = "done"
    /\ UNCHANGED <<args, global_embed_counter, fileIdx, stack, result, constructed,
                   crashedAt, codec>>

\* Lines 67-73 with the counter left as it was read.
CounterAfterStuck(counter) == counter

\* Line 73: global_embed_counter += 1.
CounterAfter(counter) == counter + 1

\* read, lines 121-131: the file is opened (or open raises), the mode detected,
\* the Project constructed (lines 62-73) and the profile read.
ReadOpenFrom(rates) ==
    /\ pc = "read"
    /\ Top.stage = "open"
    /\ \E readable \in BOOLEAN, marker \in BOOLEAN, rate \in rates :
        IF ~readable
        THEN /\ Raise
             /\ UNCHANGED <<global_embed_counter, stack, constructed>>
        ELSE /\ stack' = SetTop([DetectMode(Top, marker) EXCEPT
                        !.stage = "producers",
                        !.resource_root = Root,
                        !.serial = Len(constructed) + 1,
                        !.project = _parseSettings(
                            Project(global_embed_counter,
                                    args.embedded_mlt_to_compound_clip), rate)])
             /\ global_embed_counter' = CounterAfter(global_embed_counter)
             /\ constructed' = Append(constructed,
                    [counter |-> global_embed_counter,
                     id_prefix |-> IdPrefix(global_embed_counter,
                                            args.embedded_mlt_to_compound_clip),
                     clip_ids |-> {}])
             /\ UNCHANGED <<pc, crashedAt>>
    /\ UNCHANGED <<args, fileIdx, result, codec>>

\* One producer of the file (lines 156-201), drawn from `menu`.  The id of a
\* producer or a playlist is an XML ID, used once in a document.  An embedded
\* project is read by a reader of its own, built without arguments (line 190).
ParseProducerFrom(menu, depth) ==
    /\ pc = "read"
    /\ Top.stage = "producers"
    /\ \E producer \in menu :
        /\ \A i \in 1..Len(Top.producers) : Top.producers[i].id # producer.id
        /\ LET step == ProducerStep(Top, producer, args.embedded_mlt_to_compound_clip)
               reader == [step.reader EXCEPT !.producers = Append(@, producer)]
               clip_id == Top.project.id_prefix \o producer.id
           IN  /\ step.kind = "embed" => Len(stack) < depth
               /\ IF step.kind = "raise"
                  THEN /\ Raise
                       /\ UNCHANGED <<stack, constructed>>
                  ELSE /\ stack' = IF step.kind = "embed"
                                   THEN Append(SetTop(reader),
                                               KdenliveReader(FALSE, FALSE, FALSE))
                                   ELSE SetTop(reader)
                       /\ constructed' =
                            IF step.kind = "skip" THEN constructed
                            ELSE [constructed EXCEPT ![Top.serial].clip_ids =
                                    @ \cup {clip_id}]
                       /\ UNCHANGED <<pc, crashedAt>>
    /\ UNCHANGED <<args, global_embed_counter, fileIdx, result, codec>>

\* _parseProducers is over; _parseTracks collects the audio playlists
\* (lines 206-215).
ParseTractorsFrom(menu) ==
    /\ pc = "read"
    /\ Top.stage = "producers"
    /\ \E tractors \in menu :
        stack' = SetTop([Top EXCEPT !.stage = "tracks",
                                    !.audio_playlist_ids = AudioPlaylistIds(tractors)])
    /\ UNCHANGED <<args, global_embed_counter, pc, fileIdx, result, constructed,
                   crashedAt, codec>>

\* One playlist of the file (lines 221-261), drawn from `menu`.
ParsePlaylistFrom(menu) ==
    /\ pc = "read"
    /\ Top.stage = "tracks"
    /\ \E playlist \in menu :
        /\ playlist.id \notin Top.playlists
        /\ LET step == PlaylistStep(Top, playlist)
           IN  IF step.kind = "raise"
               THEN /\ Raise
                    /\ UNCHANGED stack
               ELSE /\ stack' = SetTop([step.reader EXCEPT
                                           !.playlists = @ \cup {playlist.id}])
                    /\ UNCHANGED <<pc, crashedAt>>
    /\ UNCHANGED <<args, global_embed_counter, fileIdx, result, constructed, codec>>

\* read returns its Project (line 135): to _parseProducers of the embedding
\* reader (lines 192-200), or to convert (line 451).
ReadReturn ==
    /\ pc = "read"
    /\ Top.stage = "tracks"
    /\ IF Len(stack) > 1
       THEN LET parent == stack[Len(stack) - 1]
                p == parent.pending[1]
                clip == Clip(p.clip_id, p.name, EmbeddedProject(Top.project), p.duration)
            IN  /\ stack' = [SubSeq(stack, 1, Len(stack) - 1) EXCEPT ![Len(stack) - 1] =
                        AddCanonicalClip([parent EXCEPT !.pending = Nothing], clip,
                                         p.resource_path)]
                /\ pc' = pc
       ELSE /\ stack' = SetTop([Top EXCEPT !.stage = "returned"])
            /\ pc' = "write"
    /\ UNCHANGED <<args, global_embed_counter, fileIdx, result, constructed,
                   crashedAt, codec>>

\* convert, lines 452-457: the writer is built and writes, or raises.
ConvertWrite ==
    /\ pc = "write"
    /\ LET w == Write(Top.project, IsLegacy(args.legacy_format, Top.version),
                      args.add_gap_nodes)
       IN  /\ result' = w
           /\ IF w.status = "raise"
              THEN Raise
              ELSE pc' = "main" /\ UNCHANGED crashedAt
    /\ UNCHANGED <<args, global_embed_counter, fileIdx, stack, constructed, codec>>

ReadOpen == ReadOpenFrom(RunRates)

ParseProducer == ParseProducerFrom(RunProducers, MaxDepth)

ParseTractors == ParseTractorsFrom(RunTractors)

ParsePlaylist == ParsePlaylistFrom(RunPlaylists)

Next ==
    \/ ConvertNext
    \/ Finish
    \/ ReadOpen
    \/ ParseProducer
    \/ ParseTractors
    \/ ParsePlaylist
    \/ ReadReturn
    \/ ConvertWrite

Spec == Init /\ [][Next]_vars

(***************************************************************************)
(* Claims checked under Spec.                                              *)
(***************************************************************************)
RunOver == pc \in {"done", "crashed"}

\* C6: a failure while converting file k aborts only that file: every later
\* file of the batch is still handed to convert, so when the run is over the
\* whole batch has been attempted.
C6_LaterFilesAttempted == RunOver => fileIdx = args.files

PrefixesDistinct ==
    \A i, j \in 1..Len(constructed) :
        i # j => constructed[i].id_prefix # constructed[j].id_prefix

IdentitiesDisjoint ==
    \A i, j \in 1..Len(constructed) :
        i # j => constructed[i].clip_ids \cap constructed[j].clip_ids = {}

CounterCountsConstructions ==
    /\ global_embed_counter = Len(constructed)
    /\ \A i \in 1..Len(constructed) : constructed[i].counter = i - 1

\* C7 as stated: the counter is read and incremented by one at every Project
\* construction, no two Projects get the same id_prefix, and a clip identity
\* (id_prefix + producer id) of one Project never equals one of another.
C7_IdentitiesNeverCollide ==
    CounterCountsConstructions /\ PrefixesDistinct /\ IdentitiesDisjoint

\* C7 amended: the counter is read and incremented by one at every Project
\* construction and no two Projects get the same id_prefix; when sub-projects
\* are embedded as compound clips, so that no prefix is empty, a clip identity
\* of one Project never equals one of another.
C7_PrefixesUnique ==
    /\ CounterCountsConstructions
    /\ PrefixesDistinct
    /\ args.embedded_mlt_to_compound_clip => IdentitiesDisjoint

\* Three Projects of one run with embedding on, file, embedded and next file,
\* two of which took a clip from the same producer id.
C7_Witness ==
    /\ args.embedded_mlt_to_compound_clip
    /\ Len(constructed) >= 3
    /\ \E i, j \in 1..Len(constructed) :
        /\ i # j
        /\ constructed[i].id_prefix \o Id_1 \in constructed[i].clip_ids
        /\ constructed[j].id_prefix \o Id_1 \in constructed[j].clip_ids

\* C9: the time mode of the top-level read is the mode of every read nested in
\* it: an embedded file is parsed with the parser the top-level file is.
C9_ModeFixedForGraph ==
    \A i \in 1..Len(stack) :
        stack[i].stage # "open" => stack[i].parseTime = stack[1].parseTime

EmbeddedClips(project) ==
    {i \in 1..Len(project.clips) : project.clips[i].resource.type = "Project"}

MediaResources(tree) == {i \in 1..Len(tree.resources) : tree.resources[i].tag = "media"}

\* C10: writing a Project that holds embedded-Project clips completes, with one
\* media resource per such clip, its id the clip's identity.
C10_EmbeddedWriteCompletes ==
    (result.status # "none" /\ EmbeddedClips(Top.project) # {}) =>
        /\ result.status = "ok"
        /\ \A i \in EmbeddedClips(Top.project) :
            Cardinality({m \in MediaResources(result.output[1]) :
                result.output[1].resources[m].id = Some(Top.project.clips[i].clip_id)}) = 1

(***************************************************************************)
(* SpecTime: the time codec alone.  A frame count of the source is parsed  *)
(* in explicit-frames mode (_parseTimeFrames) and the canonical time is    *)
(* formatted for the target (_formatTime).                                 *)
(***************************************************************************)
IdleArguments ==
    [timing_as_framenumber |-> TRUE, timing_as_timestamp |-> FALSE,
     legacy_format |-> FALSE, embedded_mlt_to_compound_clip |-> FALSE,
     add_gap_nodes |-> FALSE, files |-> 1]

CodecProject == _parseSettings(Project(0, FALSE), codec.rate)

InitTime ==
    /\ args = IdleArguments
    /\ global_embed_counter = 0
    /\ pc = "codec"
    /\ fileIdx = 0
    /\ stack = <<>>
    /\ result = NoResult
    /\ constructed = <<>>
    /\ crashedAt = 0
    /\ \E rate \in FrameRates, f \in 0..MaxFrame :
        codec = [pc |-> "attr", rate |-> rate, f |-> f, seconds |-> Nothing,
                 ticks |-> Nothing]

TimeParse ==
    /\ codec.pc = "attr"
    /\ codec' = [codec EXCEPT !.pc = "parsed",
                              !.seconds = _parseTimeFrames(FrameAttr(codec.f), CodecProject)]
    /\ UNCHANGED <<args, global_embed_counter, pc, fileIdx, stack, result, constructed,
                   crashedAt>>

TimeFormat ==
    /\ codec.pc = "parsed"
    /\ codec' = [codec EXCEPT !.pc = "formatted",
                              !.ticks = Some(_formatTime(codec.seconds[1], CodecProject))]
    /\ UNCHANGED <<args, global_embed_counter, pc, fileIdx, stack, result, constructed,
                   crashedAt>>

NextTime == TimeParse \/ TimeFormat

SpecTime == InitTime /\ [][NextTime]_vars

\* C8: for every frame rate num/den and frame index f, the time f / frame_rate
\* is formatted as ticks over rate = num, and the frame index re-derived from
\* it, ticks / den, is f again, with nothing left over.
C8_FrameRoundTrip ==
    codec.pc = "formatted" =>
        /\ codec.ticks[1][2] = codec.rate[1]
        /\ codec.ticks[1][1] % codec.rate[2] = 0
        /\ codec.ticks[1][1] \div codec.rate[2] = codec.f

\* A frame past the first at 30000/1001, formatted.
C8_Witness ==
    /\ codec.pc = "formatted"
    /\ codec.rate = <<30000, 1001>>
    /\ codec.f = 30
    /\ codec.ticks = Some(<<30030, 30000>>)

(***************************************************************************)
(* SpecProducers: the conversion of one file whose producers name the same *)
(* media file in every way the reader resolves: the declared resource, a   *)
(* speed prefix, the original URL of a proxy; a second media file; and an  *)
(* embedded project.  The file has no playlist.                            *)
(***************************************************************************)
Id_3 == <<"3">>

Res_speed_a == <<"0",".","5",":","a",".","m","o","v">>
Res_abs_a == <<"/","r","/","a",".","m","o","v">>
Res_proxy == <<"p",".","m","p","4">>
Res_b == <<"b",".","w","a","v">>
Name_x == <<"x">>

FileProducers ==
    UNION {{Producer(id, Some(Res_a), Nothing, Nothing, FrameAttr(10), Nothing),
            Producer(id, Some(Res_speed_a), Nothing, Nothing, FrameAttr(20), Nothing),
            Producer(id, Some(Res_proxy), Some(Res_abs_a), Some(S_empty), FrameAttr(10),
                     Some(-1)),
            Producer(id, Some(Res_b), Nothing, Some(Name_x), FrameAttr(10), Nothing),
            Producer(id, Some(Res_sub), Nothing, Nothing, FrameAttr(10), Nothing)} :
           id \in {Id_1, Id_2, Id_3}}
    \cup {Producer(S_black_track, Some(S_black), Nothing, Nothing, FrameAttr(10), Nothing)}

ProducersArguments ==
    {a \in Arguments : /\ a.timing_as_framenumber /\ ~a.timing_as_timestamp
                       /\ ~a.add_gap_nodes /\ ~a.legacy_format /\ a.files = 1}

InitProducers ==
    /\ args \in ProducersArguments
    /\ global_embed_counter = 0
    /\ pc = "main"
    /\ fileIdx = 0
    /\ stack = <<>>
    /\ result = NoResult
    /\ constructed = <<>>
    /\ crashedAt = 0
    /\ codec = NoCodec

\* What a project embedded in the file holds: one producer.
EmbeddedProducers ==
    {Producer(Id_1, Some(Res_a), Nothing, Nothing, FrameAttr(10), Nothing)}

ParseFileProducer ==
    ParseProducerFrom(IF Len(stack) = 1 THEN FileProducers ELSE EmbeddedProducers,
                      MaxDepth)

NextProducers ==
    \/ ConvertNext
    \/ Finish
    \/ ReadOpen
    \/ ParseFileProducer
    \/ ParseTractors
    \/ ReadReturn
    \/ ConvertWrite

SpecProducers == InitProducers /\ [][NextProducers]_vars

\* The producers of the reader's file that _parseProducers is done with: not
\* black_track, and not the one whose embedded project is still being read.
Handled(reader) ==
    LET n == IF reader.pending # Nothing THEN Len(reader.producers) - 1
             ELSE Len(reader.producers)
    IN  {i \in 1..n : reader.producers[i].id # S_black_track}

PathOf(reader, i) == ResourcePath(reader.resource_root, reader.producers[i])

\* The first handled producer with the path of producer i: the one a Clip is
\* created for.
FirstWithPath(reader, i) ==
    CHOOSE j \in Handled(reader) :
        /\ PathOf(reader, j) = PathOf(reader, i)
        /\ \A k \in Handled(reader) : PathOf(reader, k) = PathOf(reader, i) => j <= k

OneClipPerPath(reader) ==
    /\ Len(reader.project.clips) =
            Cardinality({PathOf(reader, i) : i \in Handled(reader)})
    /\ \A i \in Handled(reader) :
        LET canonical == reader.project.id_prefix
                            \o reader.producers[FirstWithPath(reader, i)].id
            clips == {c \in 1..Len(reader.project.clips) :
                        reader.project.clips[c].clip_id = canonical}
        IN  /\ reader.clip_id_to_canonical_clip_id[
                    reader.project.id_prefix \o reader.producers[i].id] = canonical
            /\ Cardinality(clips) = 1
            /\ \A c \in clips :
                    reader.project.clips[c].resource.type = "ClipFile" =>
                        reader.project.clips[c].resource.resource_path = PathOf(reader, i)

\* C1: within one Project read, whatever the producers and their order, every
\* distinct resolved resource path has exactly one Clip in the Project's clip
\* mapping, the one created for the first producer of that path, and every
\* producer id of that path is mapped to that Clip's identity.
C1_OneClipPerPath ==
    \A k \in 1..Len(stack) : stack[k].stage # "open" => OneClipPerPath(stack[k])

\* Three producers that name /r/a.mov as a resource, under a speed prefix and as
\* an original URL, the speed-prefixed one first: one Clip, three ids mapped to it.
C1_Witness ==
    /\ Len(stack) = 1
    /\ Top.stage = "producers"
    /\ Len(Top.producers) = 3
    /\ Top.producers[1].resource = Some(Res_speed_a)
    /\ \E i \in 2..3 : Top.producers[i].originalurl = Some(Res_abs_a)
    /\ \E i \in 2..3 : Top.producers[i].resource = Some(Res_a)
    /\ Len(Top.project.clips) = 1
    /\ Cardinality(DOMAIN Top.clip_id_to_canonical_clip_id) = 3

(***************************************************************************)
(* SpecWriter: the conversion of one file that embeds no project, its      *)
(* producers read in one step, its playlists one by one, then written.     *)
(***************************************************************************)
Id_black == S_black
Id_pl1 == <<"p","1">>
Id_pl2 == <<"p","2">>

\* The file's producers, with frame counts or with timestamps: black_track,
\* the black placeholder, a video file and a raw-audio file.
Document(out) ==
    <<Producer(S_black_track, Some(S_black), Nothing, Nothing, out, Nothing),
      Producer(Id_black, Some(S_black), Nothing, Nothing, out, Nothing),
      Producer(Id_1, Some(Res_a), Nothing, Nothing, out, Some(0)),
      Producer(Id_2, Some(Res_b), Nothing, Nothing, out, Nothing)>>

WriterDocuments == {Document(FrameAttr(100)), Document(StampAttr(0, 0, 4, 0))}

\* The children of a playlist, a blank and two entries: a file holds its
\* times as frame counts, or as timestamps.
FrameChildren ==
    {Blank(FrameAttr(5)),
     EntryNode(Id_black, FrameAttr(0), FrameAttr(9)),
     EntryNode(Id_2, FrameAttr(5), FrameAttr(24))}

StampChildren ==
    {Blank(StampAttr(0, 0, 0, 950)),
     EntryNode(Id_black, StampAttr(0, 0, 0, 0), StampAttr(0, 0, 0, 350)),
     EntryNode(Id_2, StampAttr(0, 0, 0, 210), StampAttr(0, 0, 0, 950))}

WriterPlaylists ==
    {Playlist(id, children) :
        id \in {Id_pl1, Id_pl2},
        children \in UNION {[1..n -> FrameChildren] \cup [1..n -> StampChildren] :
                             n \in 0..MaxChildren}}

WriterTractors == {{Tractor(FALSE, <<Id_pl1>>), Tractor(TRUE, <<Id_pl2>>)}}

WriterRates == {<<25, 1>>, <<30000, 1001>>}

WriterArguments ==
    {a \in Arguments : /\ ~a.timing_as_timestamp /\ ~a.embedded_mlt_to_compound_clip
                       /\ a.files = 1}

InitWriter ==
    /\ args \in WriterArguments
    /\ global_embed_counter = 0
    /\ pc = "main"
    /\ fileIdx = 0
    /\ stack = <<>>
    /\ result = NoResult
    /\ constructed = <<>>
    /\ crashedAt = 0
    /\ codec = NoCodec

ReadOpenWriter == ReadOpenFrom(WriterRates)

\* _parseProducers (lines 149-203) on the file's producers, in one step.
ParseDocument ==
    /\ pc = "read"
    /\ Top.stage = "producers"
    /\ Top.producers = <<>>
    /\ \E document \in WriterDocuments :
        LET reader == _parseProducers(Top, document,
                                      args.embedded_mlt_to_compound_clip, 1)
        IN  IF reader = Nothing
            THEN /\ Raise
                 /\ UNCHANGED <<stack, constructed>>
            ELSE /\ stack' = SetTop(reader[1])
                 /\ constructed' = [constructed EXCEPT ![Top.serial].clip_ids =
                        DOMAIN reader[1].clip_id_to_canonical_clip_id]
                 /\ UNCHANGED <<pc, crashedAt>>
    /\ UNCHANGED <<args, global_embed_counter, fileIdx, result, codec>>

\* The tractors are read once the producers are.
ParseWriterTractors ==
    /\ pc = "read"
    /\ Top.producers # <<>>
    /\ ParseTractorsFrom(WriterTractors)

ParseWriterPlaylist == ParsePlaylistFrom(WriterPlaylists)

NextWriter ==
    \/ ConvertNext
    \/ Finish
    \/ ReadOpenWriter
    \/ ParseDocument
    \/ ParseWriterTractors
    \/ ParseWriterPlaylist
    \/ ReadReturn
    \/ ConvertWrite

SpecWriter == InitWriter /\ [][NextWriter]_vars

(***************************************************************************)
(* Claims checked under SpecWriter.                                        *)
(***************************************************************************)
Written == result.status = "ok"

EmittedSpine == result.emitted[1].spine

OutputSpine == result.output[1].spine

RECURSIVE SumOfFirst(_, _)
SumOfFirst(durations, n) ==
    IF n = 0 THEN 0 ELSE SumOfFirst(durations, n - 1) + durations[n]

\* The duration of an entry: out - in + one frame for a clip, and for a gap
\* out_time + one frame, which is the length its blank declared.
DurationWithFrame(project, entry) ==
    IF entry.clip = Nothing
    THEN entry.out_time + 1000 * project.frame_rate_den
    ELSE entry.out_time - entry.in_time + 1000 * project.frame_rate_den

\* The duration of an entry with a gap counted as its out_time.
DurationGapOutTime(project, entry) ==
    IF entry.clip = Nothing
    THEN entry.out_time
    ELSE entry.out_time - entry.in_time + 1000 * project.frame_rate_den

\* C2 (as stated): the offset of every emitted node is the sum of the durations
\* of the entries before it in its track, a clip lasting out_time - in_time +
\* one frame and a gap lasting its out_time.
C2_OffsetsSumGapOutTime ==
    Written =>
        \A x \in 1..Len(EmittedSpine) :
            LET node == EmittedSpine[x]
                entries == Top.project.tracks[node.track + 1].entries
                durations == [k \in 1..Len(entries) |->
                                DurationGapOutTime(Top.project, entries[k])]
            IN  node.offset = _formatTime(SumOfFirst(durations, node.entry - 1),
                                          Top.project)

\* C2 (amended): the offset of every emitted node is the sum of the durations
\* of the entries before it in its track, gap nodes emitted or not, where a
\* clip lasts out_time - in_time + one frame and a gap lasts out_time + one
\* frame, the length its blank declared.
C2_OffsetsSumDurations ==
    Written =>
        \A x \in 1..Len(EmittedSpine) :
            LET node == EmittedSpine[x]
                entries == Top.project.tracks[node.track + 1].entries
                durations == [k \in 1..Len(entries) |->
                                DurationWithFrame(Top.project, entries[k])]
            IN  node.offset = _formatTime(SumOfFirst(durations, node.entry - 1),
                                          Top.project)

\* A clip node written after a gap that emitted no node.
C2_Witness ==
    /\ Written
    /\ ~args.add_gap_nodes
    /\ \E x \in 1..Len(EmittedSpine) :
        LET node == EmittedSpine[x]
            entries == Top.project.tracks[node.track + 1].entries
        IN  /\ node.entry = 2
            /\ entries[1].clip = Nothing
            /\ node.offset[1] > 0

\* C3: an element emitted for track i carries lane = i exactly when i >= 1,
\* and none emitted for track 0 carries a lane; i counts the tracks the
\* Project kept, none of them empty.
C3_LaneIffNotPrimary ==
    Written =>
        \A x \in 1..Len(EmittedSpine) :
            LET node == EmittedSpine[x]
            IN  /\ node.track \in 0..(Len(Top.project.tracks) - 1)
                /\ Top.project.tracks[node.track + 1].entries # <<>>
                /\ (node.lane = <<node.track>>) <=> (node.track >= 1)
                /\ node.track = 0 => node.lane = <<>>

\* Two tracks written, a playlist without children dropped between them or
\* not: video, audio and gap elements on track 0 and on track 1.
C3_Witness ==
    /\ Written
    /\ args.add_gap_nodes
    /\ Len(Top.project.tracks) = 2
    /\ \E x, y, z \in 1..Len(EmittedSpine) :
        /\ EmittedSpine[x].track = 0 /\ EmittedSpine[x].tag = "video"
        /\ EmittedSpine[y].track = 1 /\ EmittedSpine[y].tag = "audio"
        /\ EmittedSpine[z].track = 1 /\ EmittedSpine[z].tag = "gap"

NonGap(spine) == SelectSeq(spine, LAMBDA e : e.tag # "gap")

\* C4: written without gap nodes, the Project gives the elements, with their
\* start, duration, offset and lane, that it gives written with gap nodes
\* once the gap elements are deleted.
C4_GapNodesOnlyAddGaps ==
    Written =>
        LET other == Write(Top.project, IsLegacy(args.legacy_format, Top.version),
                           ~args.add_gap_nodes)
            with == IF args.add_gap_nodes THEN result ELSE other
            without == IF args.add_gap_nodes THEN other ELSE result
        IN  /\ other.status = "ok"
            /\ NonGap(with.emitted[1].spine) = without.emitted[1].spine
            /\ NonGap(with.output[1].spine) = without.output[1].spine

\* A track written without gap nodes whose gap is followed by a clip.
C4_Witness ==
    /\ Written
    /\ ~args.add_gap_nodes
    /\ \E x \in 1..Len(EmittedSpine) :
        LET node == EmittedSpine[x]
        IN  /\ node.entry > 1
            /\ Top.project.tracks[node.track + 1].entries[node.entry - 1].clip = Nothing

NoBlackResource(tree) == \A i \in 1..Len(tree.resources) : tree.resources[i].name # <<S_black>>

RawAudioTagged(spine) ==
    \A i \in 1..Len(spine) :
        (spine[i].name # <<>> /\ LastDotPart(spine[i].name[1]) \in {S_wav, S_flac})
            => spine[i].tag = "audio"

\* C5 (as stated): the filter is applied exactly when the legacy-output-format
\* option is false, whatever the time mode: then raw-audio names are tagged
\* audio and the black resource is gone; with the option the emitted tree is
\* written unchanged.
C5_FilterIffOptionOff ==
    Written =>
        IF ~args.legacy_format
        THEN RawAudioTagged(OutputSpine) /\ NoBlackResource(result.output[1])
        ELSE result.output = result.emitted

\* C5 (amended): the filter is applied exactly when the legacy-output-format
\* option is false and the file was read in frame mode (version 0): then
\* raw-audio names are tagged audio and the black resource is gone; with the
\* option, or a file read in timestamp mode, the emitted tree is written
\* unchanged.
C5_FilterIffOptionOffAndFrames ==
    Written =>
        IF ~args.legacy_format /\ Top.version = 0
        THEN RawAudioTagged(OutputSpine) /\ NoBlackResource(result.output[1])
        ELSE result.output = result.emitted

\* A raw-audio file emitted as video after the black placeholder and
\* written as audio.
C5_Witness ==
    /\ Written
    /\ ~args.legacy_format
    /\ Top.version = 0
    /\ \E x \in 1..Len(EmittedSpine), y \in 1..Len(OutputSpine) :
        /\ EmittedSpine[x].tag = "video"
        /\ LastDotPart(EmittedSpine[x].name[1]) = S_wav
        /\ OutputSpine[y] = [EmittedSpine[x] EXCEPT !.tag = "audio"]

(***************************************************************************)
(* SpecTracks: the conversion of one file whose producers declare a        *)
(* video_index or none, whose tractors mark playlists as audio or not,     *)
(* read in every mode.                                                     *)
(***************************************************************************)
\* A media file under each id, with no video_index, with a video stream (0)
\* and with none (-1).
TracksProducers ==
    {Producer(id_res[1], Some(id_res[2]), Nothing, Nothing, out, video_index) :
        id_res \in {<<Id_1, Res_a>>, <<Id_2, Res_b>>},
        out \in {FrameAttr(10)},
        video_index \in {Nothing, Some(0), Some(-1)}}

\* No tractor, a tractor that marks one playlist as audio, one that marks both.
TracksTractors ==
    {{},
     {Tractor(TRUE, <<Id_pl1>>), Tractor(FALSE, <<Id_pl2>>)},
     {Tractor(TRUE, <<Id_pl1, Id_pl2>>)}}

TracksChildren ==
    {<<EntryNode(Id_1, FrameAttr(0), FrameAttr(9))>>,
     <<Blank(FrameAttr(5)), EntryNode(Id_2, FrameAttr(0), FrameAttr(9))>>,
     <<EntryNode(Id_1, StampAttr(0, 0, 0, 0), StampAttr(0, 0, 0, 360))>>,
     <<Blank(StampAttr(0, 0, 0, 200)),
       EntryNode(Id_2, StampAttr(0, 0, 0, 0), StampAttr(0, 0, 0, 360))>>}

TracksPlaylists ==
    {Playlist(id, children) : id \in {Id_pl1, Id_pl2}, children \in TracksChildren}

TracksArguments ==
    {a \in Arguments : /\ ~a.timing_as_timestamp /\ ~a.embedded_mlt_to_compound_clip
                       /\ ~a.add_gap_nodes /\ a.files = 1}

InitTracks ==
    /\ args \in TracksArguments
    /\ global_embed_counter = 0
    /\ pc = "main"
    /\ fileIdx = 0
    /\ stack = <<>>
    /\ result = NoResult
    /\ constructed = <<>>
    /\ crashedAt = 0
    /\ codec = NoCodec

ReadOpenTracks == ReadOpenFrom(RunRates)

ParseTracksProducer == ParseProducerFrom(TracksProducers, 1)

ParseTracksTractors == ParseTractorsFrom(TracksTractors)

ParseTracksPlaylist == ParsePlaylistFrom(TracksPlaylists)

NextTracks ==
    \/ ConvertNext
    \/ Finish
    \/ ReadOpenTracks
    \/ ParseTracksProducer
    \/ ParseTracksTractors
    \/ ParseTracksPlaylist
    \/ ReadReturn
    \/ ConvertWrite

SpecTracks == InitTracks /\ [][NextTracks]_vars

(***************************************************************************)
(* Claims checked under SpecTracks.                                        *)
(***************************************************************************)
\* A step of _parseTracks that reads one playlist and keeps its Track.
PlaylistRead(id) ==
    /\ pc = "read" /\ pc' = "read"
    /\ Len(stack) = 1 /\ Len(stack') = 1
    /\ Top.stage = "tracks" /\ Top'.stage = "tracks"
    /\ id \notin Top.playlists /\ id \in Top'.playlists
    /\ Len(Top'.project.tracks) = Len(Top.project.tracks) + 1

\* C11: a playlist listed as a track of a tractor that carries the audio-track
\* marker becomes a Track with is_audio = true, in every reader mode and
\* whatever the video_index of its first entry's producer.
C11_AudioSetIsAudio ==
    [][\A id \in {Id_pl1, Id_pl2} :
          (PlaylistRead(id) /\ id \in Top.audio_playlist_ids)
              => Top'.project.tracks[Len(Top'.project.tracks)].is_audio]_vars

====
